---- MODULE Spec2Model ----
(***************************************************************************)
(* Model of the ANTAQ SQL agent: SQLValidator (src/src/utils/validation.py)*)
(* and the generate -> validate -> execute graph (src/src/agent/nodes.py,  *)
(* src/src/agent/graph.py), and the chat tab with its results cache        *)
(* (src/app/components/chat_tab.py).                                       *)
(*                                                                         *)
(* A text is a sequence of lexemes.  A lexeme is a maximal piece of the    *)
(* text that the regular expressions of the validator never split: a run   *)
(* of word characters written in the input, one whitespace character, or   *)
(* one punctuation character.  Two word lexemes may become adjacent after  *)
(* a rewrite removed the whitespace between them; they then form one word, *)
(* which is what \b sees in the source.                                    *)
(***************************************************************************)
EXTENDS Integers, Sequences, FiniteSets, TLC

VARIABLES
    pc,                 \* node of the graph about to run, or "END"
    dataset_schema,     \* AgentState fields (src/src/agent/state.py)
    retrieved_examples,
    generated_sql,
    validated_sql,
    sql_error,
    query_results,
    row_count,
    final_answer,
    attempt_count,
    max_attempts,
    query,              \* argument of the last SQLValidator.validate call
    verdict,            \* its return value
    normalized,         \* its sanitized_query after line 44 (before the checks)
    executed,           \* arguments of bq_client.aquery so far, in order
    exec_outcome,       \* how the last bq_client.aquery call ended, if any
    generated,          \* queries returned by generate_sql_node so far, in order
    instances,          \* the SQLValidator objects created so far (the heap)
    validator_instance, \* _validator_instance: None or the index of an object
    calls,              \* the running calls of validate, one per caller
    chat_messages,      \* st.session_state["chat_messages"]
    query_results_cache,\* st.session_state["query_results_cache"], {} when absent
    evicted,            \* keys the last save_result_to_cache call deleted
    increasing_to,      \* last index saved, while the indices saved so far
                        \* came in increasing order; None once they did not
    asked               \* questions submitted in the conversation so far

vars == <<pc, dataset_schema, retrieved_examples, generated_sql, validated_sql,
          sql_error, query_results, row_count, final_answer, attempt_count,
          max_attempts, query, verdict, normalized, executed, exec_outcome,
          generated, instances, validator_instance, calls, chat_messages,
          query_results_cache, evicted, increasing_to, asked>>

\* Optional values: None is the empty sequence, Some(x) a one-element sequence.
None == <<>>
Some(x) == <<x>>
IsNone(o) == o = <<>>
Get(o) == o[1]

\* The state of the validator singleton and of its callers.
sharedVars == <<instances, validator_instance, calls>>

\* The Streamlit session of the chat tab (src/app/components/chat_tab.py).
sessionVars == <<chat_messages, query_results_cache, evicted, increasing_to, asked>>

\* The empty function, a dict without keys.
EmptyDict == [k \in {} |-> 0]

\* A session in which nothing was asked and nothing was cached.
SessionEmpty ==
    /\ chat_messages = <<>>
    /\ query_results_cache = EmptyDict
    /\ evicted = {}
    /\ increasing_to = Some(-1)
    /\ asked = 0

(***************************************************************************)
(* Lexemes                                                                 *)
(***************************************************************************)
WS == {" ", "\n"}
Punct == {"'", "%", "(", ")", ",", ";", ".", "*", "=", "\\", "-", "/"}
IsSpace(t) == t \in WS
IsWord(t) == t \notin (WS \cup Punct)
IsWordOrDot(t) == IsWord(t) \/ t = "."

\* str.upper() on one lexeme: the lexemes of the model that hold lower-case
\* letters, every other lexeme is its own upper case.
Upper(t) ==
    CASE t = "drop" -> "DROP"
      [] t = "dróp" -> "DRÓP"
      [] t = "call" -> "CALL"
      [] t = "select" -> "SELECT"
      [] t = "like" -> "LIKE"
      [] t = "lower" -> "LOWER"
      [] t = "limit" -> "LIMIT"
      [] t = "limite" -> "LIMITE"
      [] t = "porto_atracacao" -> "PORTO_ATRACACAO"
      [] t = "id_porto_atracacao" -> "ID_PORTO_ATRACACAO"
      [] t = "rio" -> "RIO"
      [] t = "janeiro" -> "JANEIRO"
      [] t = "u" -> "U"
      [] t = "porto" -> "PORTO"
      [] t = "portos" -> "PORTOS"
      [] t = "Portos" -> "PORTOS"
      [] t = "Paraná" -> "PARANÁ"
      [] t = "Parana" -> "PARANA"
      [] t = "de" -> "DE"
      [] t = "da" -> "DA"
      [] t = "do" -> "DO"
      [] t = "terminal" -> "TERMINAL"
      [] t = "terminais" -> "TERMINAIS"
      [] t = "paraná" -> "PARANÁ"
      [] t = "parana" -> "PARANA"
      [] t = "paranagua" -> "PARANAGUA"
      [] t = "antonina" -> "ANTONINA"
      [] t = "santos" -> "SANTOS"
      [] t = "itaqui" -> "ITAQUI"
      [] t = "tipo_carga" -> "TIPO_CARGA"
      [] t = "tipo_de_carga" -> "TIPO_DE_CARGA"
      [] t = "tipo_da_carga" -> "TIPO_DA_CARGA"
      [] t = "natureza_carga" -> "NATUREZA_CARGA"
      [] t = "nome" -> "NOME"
      [] t = "ano" -> "ANO"
      [] t = "t" -> "T"
      [] t = "x" -> "X"
      [] t = "r" -> "R"
      [] t = "pM" -> "PM"
      [] t = "or" -> "OR"
      [] t = "xor" -> "XOR"
      [] t = "union" -> "UNION"
      [] OTHER -> t

\* str.lower() on one lexeme.
Lower(t) ==
    CASE t = "DROP" -> "drop"
      [] t = "DRÓP" -> "dróp"
      [] t = "CALL" -> "call"
      [] t = "SELECT" -> "select"
      [] t = "FROM" -> "from"
      [] t = "WHERE" -> "where"
      [] t = "TABLE" -> "table"
      [] t = "LIKE" -> "like"
      [] t = "LOWER" -> "lower"
      [] t = "LIMIT" -> "limit"
      [] t = "OR" -> "or"
      [] t = "XOR" -> "xor"
      [] t = "AND" -> "and"
      [] t = "UNION" -> "union"
      [] t = "REGEXP_REPLACE" -> "regexp_replace"
      [] t = "NORMALIZE" -> "normalize"
      [] t = "NFD" -> "nfd"
      [] t = "pM" -> "pm"
      [] t = "PORTO" -> "porto"
      [] t = "PARANÁ" -> "paraná"
      [] t = "Paraná" -> "paraná"
      [] t = "Parana" -> "parana"
      [] t = "Portos" -> "portos"
      [] OTHER -> t

\* strip_accents of _normalize_porto_like_accent_insensitive on one lexeme:
\* NFD decomposition with the combining marks (category Mn) removed.
strip_accents(t) ==
    CASE t = "dróp" -> "drop"
      [] t = "DRÓP" -> "DROP"
      [] t = "paraná" -> "parana"
      [] t = "PARANÁ" -> "PARANA"
      [] t = "Paraná" -> "Parana"
      [] OTHER -> t

\* .replace("á", "a").replace("ã", "a") on one (lower-cased) lexeme.
replace_a(t) ==
    CASE t = "paraná" -> "parana"
      [] OTHER -> t

\* str.upper(), str.lower() and strip_accents on a text, lexeme by lexeme.
UpperText(s) == [i \in 1..Len(s) |-> Upper(s[i])]
LowerText(s) == [i \in 1..Len(s) |-> Lower(s[i])]
StripAccentsText(s) == [i \in 1..Len(s) |-> strip_accents(s[i])]

\* str.strip() / str.lstrip() / str.rstrip() of whitespace.
RECURSIVE LStrip(_)
LStrip(s) == IF s # <<>> /\ IsSpace(Head(s)) THEN LStrip(Tail(s)) ELSE s
RECURSIVE RStrip(_)
RStrip(s) ==
    IF s # <<>> /\ IsSpace(s[Len(s)]) THEN RStrip(SubSeq(s, 1, Len(s) - 1)) ELSE s
Strip(s) == RStrip(LStrip(s))

\* str.strip(c) / str.rstrip(c) of one character c.
RECURSIVE LStripChar(_, _)
LStripChar(s, c) == IF s # <<>> /\ Head(s) = c THEN LStripChar(Tail(s), c) ELSE s
RECURSIVE RStripChar(_, _)
RStripChar(s, c) ==
    IF s # <<>> /\ s[Len(s)] = c THEN RStripChar(SubSeq(s, 1, Len(s) - 1), c) ELSE s
StripChar(s, c) == RStripChar(LStripChar(s, c), c)

\* The word boundaries \b on both sides of lexeme i of s.
WholeWord(s, i) ==
    /\ IsWord(s[i])
    /\ (i = 1 \/ ~IsWord(s[i - 1]))
    /\ (i = Len(s) \/ ~IsWord(s[i + 1]))

\* First index >= i of s that holds no whitespace (Len(s) + 1 if none): \s*
RECURSIVE SkipSpace(_, _)
SkipSpace(s, i) == IF i <= Len(s) /\ IsSpace(s[i]) THEN SkipSpace(s, i + 1) ELSE i

\* First index >= i of s outside the run of [\w\.] (Len(s) + 1 if none).
RECURSIVE SkipWordDot(_, _)
SkipWordDot(s, i) ==
    IF i <= Len(s) /\ IsWordOrDot(s[i]) THEN SkipWordDot(s, i + 1) ELSE i

\* Index of the first quote at or after i, 0 if there is none: [^']* then '
RECURSIVE FindQuote(_, _)
FindQuote(s, i) ==
    IF i > Len(s) THEN 0 ELSE IF s[i] = "'" THEN i ELSE FindQuote(s, i + 1)

(***************************************************************************)
(* The normalization passes of SQLValidator                                *)
(***************************************************************************)

\* _normalize_tipo_carga: \b(tipo_carga|tipo_de_carga|tipo_da_carga)\b,
\* case-insensitive, becomes natureza_carga.
TipoCargaNames == {"TIPO_CARGA", "TIPO_DE_CARGA", "TIPO_DA_CARGA"}
normalize_tipo_carga(s) ==
    [i \in 1..Len(s) |->
        IF WholeWord(s, i) /\ Upper(s[i]) \in TipoCargaNames
        THEN "natureza_carga" ELSE s[i]]

\* t ends with PORTO_ATRACACAO, for the upper-cased lexemes of the model:
\* [\w\.]* takes whatever stands in front of the column name.
EndsWithPortoAtracacao(t) == t \in {"PORTO_ATRACACAO", "ID_PORTO_ATRACACAO"}

\* The match, starting exactly at index i of s, of
\*   (?:LOWER\()?\s*[\w\.]*porto_atracacao\)?\s+LIKE\s+'[^']+'    (or [^']*)
\* the pattern shared by _normalize_portos_do_parana, _normalize_terminal_like
\* and _normalize_porto_like_accent_insensitive.  field is i..fieldEnd, the
\* opening quote is at quote, the closing one at end.
FieldLikeAt(s, i, allowEmpty) ==
    LET n == Len(s)
        a == IF i + 1 <= n /\ Upper(s[i]) = "LOWER" /\ s[i + 1] = "(" THEN i + 2 ELSE i
        b == SkipSpace(s, a)
        c == SkipWordDot(s, b)
        d == IF c <= n /\ s[c] = ")" THEN c + 1 ELSE c
        e == SkipSpace(s, d)
        g == SkipSpace(s, e + 1)
        h == IF g <= n THEN FindQuote(s, g + 1) ELSE 0
    IN  [ok |-> /\ i <= n
                /\ c > b /\ EndsWithPortoAtracacao(Upper(s[c - 1]))
                /\ e > d /\ e <= n /\ Upper(s[e]) = "LIKE"
                /\ g > e + 1 /\ g <= n /\ s[g] = "'"
                /\ h # 0 /\ (allowEmpty \/ h > g + 1),
         fieldEnd |-> d - 1, quote |-> g, end |-> h]

\* \bportos?\s+do\s+parana\b found in the lower-cased, de-accented value.
PortosDoParanaAt(v, j) ==
    LET k == SkipSpace(v, j + 1)
        l == SkipSpace(v, k + 1)
    IN  /\ v[j] \in {"porto", "portos"}
        /\ (j = 1 \/ ~IsWord(v[j - 1]))
        /\ k > j + 1 /\ k <= Len(v) /\ v[k] = "do"
        /\ l > k + 1 /\ l <= Len(v) /\ v[l] = "parana"
        /\ (l = Len(v) \/ ~IsWord(v[l + 1]))

LowerDeaccent(t) == replace_a(Lower(t))

HasPortosDoParana(value_raw) ==
    LET value_norm == [k \in 1..Len(value_raw) |-> LowerDeaccent(value_raw[k])]
    IN  \E j \in 1..Len(value_norm) : PortosDoParanaAt(value_norm, j)

StartsWithLower(field) ==
    Len(field) >= 2 /\ Upper(field[1]) = "LOWER" /\ field[2] = "("

\* repl of _normalize_portos_do_parana for the match m of s at i.
ParanaRepl(s, i, m) ==
    LET stripped == Strip(SubSeq(s, i, m.fieldEnd))
        value_raw == SubSeq(s, m.quote + 1, m.end - 1)
        field_expr == IF StartsWithLower(stripped) THEN stripped
                      ELSE <<"LOWER", "(">> \o stripped \o <<")">>
    IN  IF HasPortosDoParana(value_raw)
        THEN <<"(">> \o field_expr \o <<" ", "LIKE", " ", "'", "%", "paranagua", "%", "'">>
             \o <<" ", "OR", " ">>
             \o field_expr \o <<" ", "LIKE", " ", "'", "%", "antonina", "%", "'", ")">>
        ELSE SubSeq(s, i, m.end)

RECURSIVE ParanaSub(_, _)
ParanaSub(s, i) ==
    IF i > Len(s) THEN <<>>
    ELSE LET m == FieldLikeAt(s, i, FALSE)
         IN  IF m.ok THEN ParanaRepl(s, i, m) \o ParanaSub(s, m.end + 1)
             ELSE <<s[i]>> \o ParanaSub(s, i + 1)

normalize_portos_do_parana(s) == ParanaSub(s, 1)

\* The match, starting at the LIKE at index i of s, of
\*   (LIKE\s+')%?porto\s+(?:de|da|do)\s+([^%']+?)%?(')
PortoLikeAt(s, i) ==
    LET n == Len(s)
        j == SkipSpace(s, i + 1)
        k == IF j + 1 <= n /\ s[j + 1] = "%" THEN j + 2 ELSE j + 1
        l == SkipSpace(s, k + 1)
        q == IF l + 1 <= n THEN FindQuote(s, l + 1) ELSE 0
        rest == IF q = 0 THEN <<>> ELSE SubSeq(s, l + 1, q - 1)
        body == IF rest # <<>> /\ rest[Len(rest)] = "%"
                THEN SubSeq(rest, 1, Len(rest) - 1) ELSE rest
    IN  [ok |-> /\ i <= n /\ Upper(s[i]) = "LIKE"
                /\ j > i + 1 /\ j <= n /\ s[j] = "'"
                /\ k <= n /\ Upper(s[k]) = "PORTO"
                /\ l > k + 1 /\ l <= n /\ Upper(s[l]) \in {"DE", "DA", "DO"}
                /\ q # 0
                /\ Len(body) >= 2 /\ IsSpace(body[1])
                /\ \A x \in 1..Len(body) : body[x] # "%",
         quote |-> j, name |-> Strip(body), end |-> q]

RECURSIVE PortoLikeSub(_, _)
PortoLikeSub(s, i) ==
    IF i > Len(s) THEN <<>>
    ELSE LET m == PortoLikeAt(s, i)
         IN  IF m.ok
             THEN SubSeq(s, i, m.quote) \o <<"%">> \o m.name \o <<"%", "'">>
                  \o PortoLikeSub(s, m.end + 1)
             ELSE <<s[i]>> \o PortoLikeSub(s, i + 1)

normalize_porto_like(s) == PortoLikeSub(s, 1)

\* " ".join(text.split())
RECURSIVE CollapseRuns(_)
CollapseRuns(s) ==
    IF s = <<>> THEN <<>>
    ELSE IF IsSpace(Head(s)) THEN <<" ">> \o CollapseRuns(LStrip(s))
    ELSE <<Head(s)>> \o CollapseRuns(Tail(s))
SplitJoin(s) == CollapseRuns(Strip(s))

TerminalWords == {"TERMINAL", "TERMINALES", "PORTO", "PORTUÁRIO", "PORTUÁRIOS"}
Connectors == {"DE", "DA", "DO"}

\* re.sub(r"\b(words)\b", " ", text, flags=re.IGNORECASE)
BlankWords(text, words) ==
    [i \in 1..Len(text) |->
        IF WholeWord(text, i) /\ Upper(text[i]) \in words THEN " " ELSE text[i]]

\* cleaned of _normalize_terminal_like.repl for the LIKE value raw.
TerminalCleaned(raw) ==
    StripChar(SplitJoin(BlankWords(BlankWords(raw, TerminalWords), Connectors)), "%")

RECURSIVE TerminalSub(_, _)
TerminalSub(s, i) ==
    IF i > Len(s) THEN <<>>
    ELSE LET m == FieldLikeAt(s, i, FALSE)
             cleaned == TerminalCleaned(SubSeq(s, m.quote + 1, m.end - 1))
         IN  IF m.ok
             THEN (IF cleaned = <<>> THEN SubSeq(s, i, m.end)
                   ELSE SubSeq(s, i, m.quote) \o <<"%">> \o cleaned \o <<"%", "'">>)
                  \o TerminalSub(s, m.end + 1)
             ELSE <<s[i]>> \o TerminalSub(s, i + 1)

normalize_terminal_like(s) == TerminalSub(s, 1)

\* repl of _normalize_porto_like_accent_insensitive for the match m of s at i.
\* A faulty replacement, for testing the properties: it builds the expression
\* with REPLACE where the code uses REGEXP_REPLACE.
AccentReplUsingReplace(s, i, m) ==
    LET stripped == Strip(SubSeq(s, i, m.fieldEnd))
        value == SubSeq(s, m.quote + 1, m.end - 1)
    IN  <<"REPLACE", "(", "LOWER", "(">> \o stripped
        \o <<")", ",", " ", "'", "'", ",", " ", "'", "'", ")">>
        \o <<" ", "LIKE", " ", "'">> \o StripAccentsText(value) \o <<"'">>

AccentRepl(s, i, m) ==
    LET stripped == Strip(SubSeq(s, i, m.fieldEnd))
        value == SubSeq(s, m.quote + 1, m.end - 1)
        field_expr == IF StartsWithLower(stripped) /\ stripped[Len(stripped)] = ")"
                      THEN SubSeq(stripped, 3, Len(stripped) - 1) ELSE stripped
    IN  <<"REGEXP_REPLACE", "(", "NORMALIZE", "(", "LOWER", "(">> \o field_expr
        \o <<")", ",", " ", "NFD", ")", ",", " ", "r", "'", "\\", "pM", "'", ",",
             " ", "'", "'", ")">>
        \o <<" ", "LIKE", " ", "'">> \o StripAccentsText(value) \o <<"'">>

RECURSIVE AccentSub(_, _)
AccentSub(s, i) ==
    IF i > Len(s) THEN <<>>
    ELSE LET m == FieldLikeAt(s, i, TRUE)
         IN  IF m.ok THEN AccentRepl(s, i, m) \o AccentSub(s, m.end + 1)
             ELSE <<s[i]>> \o AccentSub(s, i + 1)

normalize_porto_like_accent_insensitive(s) == AccentSub(s, 1)

\* A faulty order of the passes, for testing the properties: the porto-de
\* collapse runs before the Paraná expansion.
NormalizeCollapseFirst(q) ==
    normalize_terminal_like(
        normalize_portos_do_parana(
            normalize_porto_like(
                normalize_tipo_carga(Strip(q)))))

\* Lines 39-43 of validate: strip, then the first four passes in their order.
NormalizeBeforeAccent(q) ==
    normalize_terminal_like(
        normalize_porto_like(
            normalize_portos_do_parana(
                normalize_tipo_carga(Strip(q)))))

\* Lines 39-44 of validate: strip, then the five passes in their order.
Normalize(q) == normalize_porto_like_accent_insensitive(NormalizeBeforeAccent(q))

(***************************************************************************)
(* The checks of SQLValidator and validate                                 *)
(***************************************************************************)
max_rows == 1000

FORBIDDEN_KEYWORDS ==
    <<"DROP", "DELETE", "UPDATE", "INSERT", "CREATE", "ALTER", "TRUNCATE",
      "GRANT", "REVOKE", "EXECUTE", "CALL", "MERGE", "REPLACE">>

ALLOWED_PREFIXES == <<"SELECT", "WITH", "(", "SHOW", "DESCRIBE", "DESC">>

\* re.search(rf"\b{keyword}\b", query_upper)
HasWholeWord(text, keyword) ==
    \E i \in 1..Len(text) : text[i] = keyword /\ WholeWord(text, i)

\* _check_forbidden_keywords: the keywords found, in the order of the list.
check_forbidden_keywords(q) ==
    LET query_upper == UpperText(q)
        Found(keyword) == HasWholeWord(query_upper, keyword)
    IN  SelectSeq(FORBIDDEN_KEYWORDS, Found)

\* str.startswith(prefix) for the first lexeme of an upper-cased text: no
\* lexeme of the model other than a prefix itself begins with "(", and the
\* words that begin with an allowed prefix are the prefixes themselves
\* (DESCRIBE begins with DESC as well).
LexemeStartsWith(t, prefix) ==
    t = prefix \/ (prefix = "DESC" /\ t = "DESCRIBE")

\* _check_allowed_prefix
check_allowed_prefix(q) ==
    LET query_upper == Strip(UpperText(q))
    IN  /\ query_upper # <<>>
        /\ \E i \in 1..Len(ALLOWED_PREFIXES) :
              LexemeStartsWith(query_upper[1], ALLOWED_PREFIXES[i])

\* word in text.upper(): the upper-cased lexemes of the model in which the
\* letters of word occur (LIMITE holds LIMIT).
LexemeContains(t, word) ==
    t = word \/ (word = "LIMIT" /\ t = "LIMITE")

Contains(q, word) == \E i \in 1..Len(q) : LexemeContains(Upper(q[i]), word)

\* _has_limit, _has_where
has_limit(q) == Contains(q, "LIMIT")
has_where(q) == Contains(q, "WHERE")

\* _add_limit
add_limit(q) ==
    Strip(RStripChar(q, ";")) \o <<"\n", "LIMIT", " ", ToString(max_rows)>>

\* The six patterns of _check_injection_patterns on the lower-cased text.
OrOneEqualsOneAt(t, i) ==
    LET a == SkipSpace(t, i + 1)
        b == SkipSpace(t, a + 1)
        c == SkipSpace(t, b + 1)
    IN  /\ t[i] = "or" /\ (i = 1 \/ ~IsWord(t[i - 1]))
        /\ a > i + 1 /\ a <= Len(t) /\ t[a] = "1"
        /\ b <= Len(t) /\ t[b] = "="
        /\ c <= Len(t) /\ t[c] = "1"
        /\ (c = Len(t) \/ ~IsWord(t[c + 1]))

InjectionFound(t, pattern) ==
    CASE pattern = "';" -> \E i \in 1..Len(t) - 1 : t[i] = "'" /\ t[i + 1] = ";"
      [] pattern = "--" -> \E i \in 1..Len(t) - 1 : t[i] = "-" /\ t[i + 1] = "-"
      [] pattern = "/\\*" -> \E i \in 1..Len(t) - 1 : t[i] = "/" /\ t[i + 1] = "*"
      [] pattern = "\\bor\\s+1\\s*=\\s*1\\b" -> \E i \in 1..Len(t) : OrOneEqualsOneAt(t, i)
      [] pattern = "\\bxor\\b" -> HasWholeWord(t, "xor")
      [] pattern = "union.*select" ->
            \E i, j \in 1..Len(t) :
                /\ i < j /\ t[i] = "union" /\ t[j] = "select"
                /\ \A k \in i..j : t[k] # "\n"
      [] OTHER -> FALSE

InjectionPatterns ==
    <<"';", "--", "/\\*", "\\bor\\s+1\\s*=\\s*1\\b", "\\bxor\\b", "union.*select">>

check_injection_patterns(q) ==
    LET query_lower == LowerText(q)
        Found(pattern) == InjectionFound(query_lower, pattern)
    IN  SelectSeq(InjectionPatterns, Found)

\* A faulty validate, for testing the properties: a suspicious pattern is
\* reported as an error.
ValidateResultInjectionAsError(norm, forbidden_found, limited, injection_patterns) ==
    LET errors ==
            (IF forbidden_found # <<>>
             THEN <<[msg |-> "Comandos não permitidos encontrados", names |-> forbidden_found]>>
             ELSE <<>>)
            \o (IF ~check_allowed_prefix(norm)
                THEN <<[msg |-> "Query deve começar com SELECT, WITH, ou SHOW", names |-> <<>>]>>
                ELSE <<>>)
            \o (IF injection_patterns # <<>>
                THEN <<[msg |-> "Padrões suspeitos detectados", names |-> injection_patterns]>>
                ELSE <<>>)
        warnings ==
            (IF ~has_limit(norm)
             THEN <<[msg |-> "Query sem LIMIT pode retornar muitos registros. Adicionando LIMIT",
                     names |-> <<ToString(max_rows)>>]>>
             ELSE <<>>)
            \o (IF ~has_where(limited) /\ Contains(limited, "FROM")
                THEN <<[msg |-> "Query sem WHERE pode fazer table scan. Recomendado adicionar filtro de ano.",
                        names |-> <<>>]>>
                ELSE <<>>)
    IN  [is_valid |-> Len(errors) = 0,
         errors |-> errors,
         warnings |-> warnings,
         sanitized_query |-> limited]

\* A faulty validate, for testing the properties: the WHERE advisory is
\* appended before the suspicious-pattern advisory.
ValidateResultWhereFirst(norm, forbidden_found, limited, injection_patterns) ==
    LET errors ==
            (IF forbidden_found # <<>>
             THEN <<[msg |-> "Comandos não permitidos encontrados", names |-> forbidden_found]>>
             ELSE <<>>)
            \o (IF ~check_allowed_prefix(norm)
                THEN <<[msg |-> "Query deve começar com SELECT, WITH, ou SHOW", names |-> <<>>]>>
                ELSE <<>>)
        warnings ==
            (IF ~has_limit(norm)
             THEN <<[msg |-> "Query sem LIMIT pode retornar muitos registros. Adicionando LIMIT",
                     names |-> <<ToString(max_rows)>>]>>
             ELSE <<>>)
            \o (IF ~has_where(limited) /\ Contains(limited, "FROM")
                THEN <<[msg |-> "Query sem WHERE pode fazer table scan. Recomendado adicionar filtro de ano.",
                        names |-> <<>>]>>
                ELSE <<>>)
            \o (IF injection_patterns # <<>>
                THEN <<[msg |-> "Padrões suspeitos detectados", names |-> injection_patterns]>>
                ELSE <<>>)
    IN  [is_valid |-> Len(errors) = 0,
         errors |-> errors,
         warnings |-> warnings,
         sanitized_query |-> limited]

\* Lines 46-86 of validate, for the normalized text norm, the keywords found
\* in it and the text after the LIMIT step.
ValidateResult(norm, forbidden_found, limited, injection_patterns) ==
    LET errors ==
            (IF forbidden_found # <<>>
             THEN <<[msg |-> "Comandos não permitidos encontrados", names |-> forbidden_found]>>
             ELSE <<>>)
            \o (IF ~check_allowed_prefix(norm)
                THEN <<[msg |-> "Query deve começar com SELECT, WITH, ou SHOW", names |-> <<>>]>>
                ELSE <<>>)
        warnings ==
            (IF ~has_limit(norm)
             THEN <<[msg |-> "Query sem LIMIT pode retornar muitos registros. Adicionando LIMIT",
                     names |-> <<ToString(max_rows)>>]>>
             ELSE <<>>)
            \o (IF injection_patterns # <<>>
                THEN <<[msg |-> "Padrões suspeitos detectados", names |-> injection_patterns]>>
                ELSE <<>>)
            \o (IF ~has_where(limited) /\ Contains(limited, "FROM")
                THEN <<[msg |-> "Query sem WHERE pode fazer table scan. Recomendado adicionar filtro de ano.",
                        names |-> <<>>]>>
                ELSE <<>>)
    IN  [is_valid |-> Len(errors) = 0,
         errors |-> errors,
         warnings |-> warnings,
         sanitized_query |-> limited]

\* Lines 59-65 of validate: the LIMIT step.
EnforceLimit(norm) == IF ~has_limit(norm) THEN add_limit(norm) ELSE norm

ValidateLimited(norm, limited) ==
    ValidateResult(norm, check_forbidden_keywords(norm), limited,
                   check_injection_patterns(limited))

ValidateNormalized(norm) == ValidateLimited(norm, EnforceLimit(norm))

\* A faulty validate, for testing the properties: the forbidden-keyword scan
\* reads the query as it came in, before the normalization passes.
validate_scanning_input(q) ==
    ValidateResult(Normalize(q), check_forbidden_keywords(q),
                   EnforceLimit(Normalize(q)),
                   check_injection_patterns(EnforceLimit(Normalize(q))))

\* SQLValidator.validate
validate(q) == ValidateNormalized(Normalize(q))

(***************************************************************************)
(* Inputs of validate: bounded families of queries                         *)
(***************************************************************************)
MaxWords == 2       \* free words in a LIKE value
MaxNest == 2        \* "porto do" prefixes stacked in front of them

ValueWords == {"santos", "paraná", "terminal", "drop", "dróp"}

RECURSIVE JoinWords(_)
JoinWords(ws) ==
    IF Len(ws) <= 1 THEN ws ELSE <<Head(ws), " ">> \o JoinWords(Tail(ws))

RECURSIVE PortoDo(_)
PortoDo(k) == IF k = 0 THEN <<>> ELSE <<"porto", "do">> \o PortoDo(k - 1)

WordLists == UNION {[1..n -> ValueWords] : n \in 0..MaxWords}

\* The LIKE values: k "porto do" prefixes, then the free words, separated by
\* single spaces, bare or wrapped in %.
GeneratedValues ==
    {(IF wrap THEN <<"%">> ELSE <<>>) \o JoinWords(PortoDo(k) \o ws)
        \o (IF wrap THEN <<"%">> ELSE <<>>) :
        k \in 0..MaxNest, ws \in WordLists, wrap \in BOOLEAN}

\* The values of the docstrings of the passes, and port names that hold a
\* connector or a terminal word.
ExampleValues ==
    {<<"%", "porto", " ", "de", " ", "itaqui", "%">>,
     <<"%", "porto", " ", "de", " ", "rio", " ", "de", " ", "janeiro", "%">>,
     <<"%", "terminais", " ", "de", " ", "santos", "%">>,
     <<"%", "terminal", " ", "de", " ", "santos", "%">>,
     <<"%", "portos", " ", "do", " ", "parana", "%">>,
     <<"%", "Portos", " ", "do", " ", "Paraná", "%">>}

Values == GeneratedValues \cup ExampleValues

Fields ==
    {<<"porto_atracacao">>, <<"LOWER", "(", "porto_atracacao", ")">>, <<"nome">>,
     <<"id_porto_atracacao">>}

SelectFromWhere == <<"SELECT", " ", "*", " ", "FROM", " ", "t", " ", "WHERE", " ">>

\* What stands before and after the LIKE predicate.
Frames ==
    {[pre |-> SelectFromWhere, post |-> <<>>],
     [pre |-> SelectFromWhere, post |-> <<" ", "LIMIT", " ", "10">>],
     [pre |-> <<>>, post |-> <<>>],
     [pre |-> <<"SELECT", " ", "limite", " ", "FROM", " ", "t", " ", "WHERE", " ">>,
      post |-> <<>>],
     [pre |-> <<"DELETE", " ", "FROM", " ", "t", " ", "WHERE", " ">>, post |-> <<>>]}

Predicate(field, value) == field \o <<" ", "LIKE", " ", "'">> \o value \o <<"'">>

\* Queries without a LIKE predicate (the first four are those of
\* tests/test_utils/test_validation.py and of the scenarios).
PlainQueries ==
    {<<"DROP", " ", "TABLE", " ", "x">>,
     <<"SELECT", " ", "*", " ", "FROM", " ", "t", " ", "WHERE", " ", "ano", "=", "2024">>,
     <<"SELECT", " ", "*", " ", "FROM", " ", "t", " ", "WHERE", " ", "ano", "=", "2024",
       " ", "LIMIT", " ", "10">>,
     <<"SELECT", " ", "*", " ", "FROM", " ", "t", " ", "WHERE", " ", "id", " ", "=",
       " ", "1", " ", "OR", " ", "1", "=", "1">>,
     <<" ", "select", " ", "tipo_carga", " ", "FROM", " ", "t", ";", " ">>,
     <<"SELECT", " ", "limite", " ", "FROM", " ", "t">>,
     <<"EXPLAIN", " ", "SELECT", " ", "x">>,
     <<"SELECT", " ", "*", " ", "FROM", " ", "t", " ", "UNION", " ", "SELECT", " ", "*",
       " ", "FROM", " ", "u">>,
     <<"SELECT", " ", "1">>,
     <<"SELECT", " ", "*", " ", "FROM", " ", "t", " ", "WHERE", " ", "ano", "=", "2024",
       " ", "LIMIT", " ", "5000">>}

Queries ==
    PlainQueries \cup
    {f.pre \o Predicate(field, value) \o f.post :
        f \in Frames, field \in Fields, value \in Values}

(***************************************************************************)
(* ValidatorSpec: validate called on every query of the families           *)
(***************************************************************************)
DefaultMaxAttempts == 3

\* SQLValidator(): __init__ stores max_rows and nothing else.
NewValidator == [max_rows |-> max_rows]

\* After the import of agent.nodes: sql_validator = get_sql_validator() has
\* created the singleton, and no call of validate is running.
SingletonReady ==
    /\ instances = <<NewValidator>>
    /\ validator_instance = Some(1)
    /\ calls = <<>>

TurnIdle ==
    /\ dataset_schema = None /\ retrieved_examples = None
    /\ generated_sql = None /\ validated_sql = None /\ sql_error = None
    /\ query_results = None /\ row_count = None /\ final_answer = None
    /\ attempt_count = 0 /\ max_attempts = DefaultMaxAttempts
    /\ executed = <<>> /\ exec_outcome = None /\ generated = <<>>

turnVars == <<dataset_schema, retrieved_examples, generated_sql, validated_sql,
              sql_error, query_results, row_count, final_answer, attempt_count,
              max_attempts, executed, exec_outcome, generated>>

InitValidator ==
    /\ pc = "validate"
    /\ query \in Queries
    /\ verdict = None
    /\ normalized = None
    /\ TurnIdle
    /\ SingletonReady
    /\ SessionEmpty

\* One call of sql_validator.validate(query).
CallValidate ==
    /\ pc = "validate"
    /\ UNCHANGED <<sharedVars, sessionVars>>
    /\ verdict' = Some(validate(query))
    /\ normalized' = Some(Normalize(query))
    /\ pc' = "returned"
    /\ UNCHANGED <<query, turnVars>>

NextValidator == CallValidate

ValidatorSpec == InitValidator /\ [][NextValidator]_vars

(***************************************************************************)
(* Spec: one turn of the graph of create_graph                             *)
(***************************************************************************)
MaxAttempts == 3    \* max_attempts ranges over 1..MaxAttempts

\* What extract_sql_from_response may hand to generate_sql_node.
GenQueries ==
    {<<>>,
     <<"DROP", " ", "TABLE", " ", "x">>,
     <<"SELECT", " ", "*", " ", "FROM", " ", "t", " ", "WHERE", " ", "ano", "=", "2024">>,
     <<"SELECT", " ", "*", " ", "FROM", " ", "t", " ", "WHERE", " ", "ano", "=", "2024",
       " ", ";">>,
     SelectFromWhere
        \o Predicate(<<"LOWER", "(", "porto_atracacao", ")">>,
                     <<"%", "porto", " ", "de", " ", "itaqui", "%">>)
        \o <<" ", "LIMIT", " ", "10">>,
     Predicate(<<"porto_atracacao">>, <<"%", "portos", " ", "do", " ", "paraná", "%">>),
     SelectFromWhere \o Predicate(<<"porto_atracacao">>, <<"%", "dróp", "%">>)}

\* _query_agente_impl: initial_state, then graph.ainvoke from the entry point.
Init ==
    /\ pc = "setup_schema"
    /\ dataset_schema = None /\ retrieved_examples = None
    /\ generated_sql = None /\ validated_sql = None /\ sql_error = None
    /\ query_results = None /\ row_count = None /\ final_answer = None
    /\ attempt_count = 0
    /\ max_attempts \in 1..MaxAttempts
    /\ query = None /\ verdict = None /\ normalized = None
    /\ executed = <<>> /\ exec_outcome = None /\ generated = <<>>
    /\ SingletonReady
    /\ SessionEmpty

validatorVars == <<query, verdict, normalized>>

\* setup_schema_node; get_schema_for_prompt returns or raises.
setup_schema_node ==
    /\ pc = "setup_schema"
    /\ UNCHANGED <<sharedVars, sessionVars>>
    /\ \E raises \in BOOLEAN :
          IF raises
          THEN pc' = "RAISED" /\ UNCHANGED dataset_schema
          ELSE /\ pc' = "retrieve_examples"
               /\ dataset_schema' =
                    IF IsNone(dataset_schema) THEN Some("schema") ELSE dataset_schema
    /\ UNCHANGED <<retrieved_examples, generated_sql, validated_sql, sql_error,
                   query_results, row_count, final_answer, attempt_count,
                   max_attempts, validatorVars, executed, exec_outcome, generated>>

\* retrieve_examples_node; a failing retriever yields no examples.
retrieve_examples_node ==
    /\ pc = "retrieve_examples"
    /\ UNCHANGED <<sharedVars, sessionVars>>
    /\ \E examples \in {<<>>, <<"example">>} :
          retrieved_examples' = Some(examples)
    /\ pc' = "generate_sql"
    /\ UNCHANGED <<dataset_schema, generated_sql, validated_sql, sql_error,
                   query_results, row_count, final_answer, attempt_count,
                   max_attempts, validatorVars, executed, exec_outcome, generated>>

\* generate_sql_node; llm.ainvoke returns a response or raises.
generate_sql_node ==
    /\ pc = "generate_sql"
    /\ UNCHANGED <<sharedVars, sessionVars>>
    /\ \E raises \in BOOLEAN, sql_query \in GenQueries :
          IF raises
          THEN /\ pc' = "RAISED"
               /\ UNCHANGED <<generated_sql, attempt_count, generated>>
          ELSE /\ pc' = "validate_sql"
               /\ generated_sql' = Some(sql_query)
               /\ attempt_count' = attempt_count + 1
               /\ generated' = Append(generated, sql_query)
    /\ UNCHANGED <<dataset_schema, retrieved_examples, validated_sql, sql_error,
                   query_results, row_count, final_answer, max_attempts,
                   validatorVars, executed, exec_outcome>>

Error(msg, errors) == Some([msg |-> msg, errors |-> errors])

\* The verdicts and the normalized texts of the queries the generator may
\* return, computed once: validate is a function of its argument.
GenVerdicts == [q \in GenQueries |-> validate(q)]
GenNormalized == [q \in GenQueries |-> Normalize(q)]

\* A faulty validate_sql_node, for testing the properties: it forwards the
\* sanitized query without looking at is_valid.
ValidatedUpdateUnchecked(sql_query, validation_result) ==
    /\ query' = Some(sql_query)
    /\ verdict' = Some(validation_result)
    /\ normalized' = Some(GenNormalized[sql_query])
    /\ validated_sql' = Some(validation_result.sanitized_query)
    /\ sql_error' = None

\* A faulty validate_sql_node, for testing the properties: an accepted query
\* leaves the error of the previous attempt in place.
ValidatedUpdateKeepingError(sql_query, validation_result) ==
    /\ query' = Some(sql_query)
    /\ verdict' = Some(validation_result)
    /\ normalized' = Some(GenNormalized[sql_query])
    /\ IF ~validation_result.is_valid
       THEN /\ validated_sql' = None
            /\ sql_error' = Error("Erros de validação", validation_result.errors)
       ELSE IF attempt_count >= max_attempts
       THEN /\ validated_sql' = None
            /\ sql_error' = Error("Número máximo de tentativas atingido.", <<>>)
       ELSE /\ validated_sql' = Some(validation_result.sanitized_query)
            /\ UNCHANGED sql_error

\* Lines 142-163 of validate_sql_node, for the non-empty sql_query and the
\* result of sql_validator.validate(sql_query).
ValidatedUpdate(sql_query, validation_result) ==
    /\ query' = Some(sql_query)
    /\ verdict' = Some(validation_result)
    /\ normalized' = Some(GenNormalized[sql_query])
    /\ IF ~validation_result.is_valid
       THEN /\ validated_sql' = None
            /\ sql_error' = Error("Erros de validação", validation_result.errors)
       ELSE IF attempt_count >= max_attempts
       THEN /\ validated_sql' = None
            /\ sql_error' = Error("Número máximo de tentativas atingido.", <<>>)
       ELSE /\ validated_sql' = Some(validation_result.sanitized_query)
            /\ sql_error' = None

\* A faulty validate_sql_node, for testing the properties: it hands an empty
\* query to the validator as well.
ValidateSqlUpdateAlways(sql_query) == ValidatedUpdate(sql_query, validate(sql_query))

\* Lines 133-139 of validate_sql_node, then the rest.
ValidateSqlUpdate(sql_query) ==
    IF sql_query = <<>>
    THEN /\ validated_sql' = None
         /\ sql_error' = Error("Nenhuma query foi gerada.", <<>>)
         /\ UNCHANGED validatorVars
    ELSE ValidatedUpdate(sql_query, GenVerdicts[sql_query])

\* A faulty validate_sql_node, for testing the properties: it counts the
\* attempt itself as well.
validate_sql_node_counting ==
    /\ pc = "validate_sql"
    /\ UNCHANGED <<sharedVars, sessionVars>>
    /\ ValidateSqlUpdate(IF IsNone(generated_sql) THEN <<>> ELSE Get(generated_sql))
    /\ pc' = "should_continue_to_execute"
    /\ attempt_count' = attempt_count + 1
    /\ UNCHANGED <<dataset_schema, retrieved_examples, generated_sql, query_results,
                   row_count, final_answer, max_attempts, executed,
                   exec_outcome, generated>>

\* validate_sql_node
validate_sql_node ==
    /\ pc = "validate_sql"
    /\ UNCHANGED <<sharedVars, sessionVars>>
    /\ ValidateSqlUpdate(IF IsNone(generated_sql) THEN <<>> ELSE Get(generated_sql))
    /\ pc' = "should_continue_to_execute"
    /\ UNCHANGED <<dataset_schema, retrieved_examples, generated_sql, query_results,
                   row_count, final_answer, attempt_count, max_attempts, executed,
                   exec_outcome, generated>>

\* A faulty router, for testing the properties: it retries while
\* attempt_count <= max_attempts.
RouteOffByOne ==
    IF ~IsNone(sql_error)
    THEN (IF attempt_count <= max_attempts THEN "retry" ELSE "end")
    ELSE IF ~IsNone(validated_sql) /\ Get(validated_sql) # <<>> THEN "execute"
    ELSE "end"

\* The value of should_continue_to_execute(state).
Route ==
    IF ~IsNone(sql_error)
    THEN (IF attempt_count < max_attempts THEN "retry" ELSE "end")
    ELSE IF ~IsNone(validated_sql) /\ Get(validated_sql) # <<>> THEN "execute"
    ELSE "end"

\* The conditional edges out of validate_sql.
EdgeTarget(route) ==
    CASE route = "execute" -> "execute_sql"
      [] route = "retry" -> "generate_sql"
      [] route = "end" -> "END"

should_continue_to_execute ==
    /\ pc = "should_continue_to_execute"
    /\ UNCHANGED <<sharedVars, sessionVars>>
    /\ pc' = EdgeTarget(Route)
    /\ UNCHANGED <<dataset_schema, retrieved_examples, generated_sql, validated_sql,
                   sql_error, query_results, row_count, final_answer, attempt_count,
                   max_attempts, validatorVars, executed, exec_outcome, generated>>

\* A faulty execute_sql_node, for testing the properties: a raising
\* bq_client.aquery sends the turn back to generate_sql.
execute_sql_node_retrying ==
    /\ pc = "execute_sql"
    /\ UNCHANGED <<sharedVars, sessionVars>>
    /\ executed' = Append(executed, Get(validated_sql))
    /\ \E outcome \in {"rows", "empty", "raise", "cancel"} :
          /\ exec_outcome' = Some(outcome)
          /\ CASE outcome = "rows" ->
                     /\ query_results' = Some(<<"row">>) /\ row_count' = Some(1)
                     /\ pc' = "generate_final_answer" /\ UNCHANGED sql_error
               [] outcome = "empty" ->
                     /\ query_results' = Some(<<>>) /\ row_count' = Some(0)
                     /\ pc' = "generate_final_answer" /\ UNCHANGED sql_error
               [] outcome = "raise" ->
                     /\ query_results' = None /\ row_count' = Some(0)
                     /\ sql_error' = Error("Erro ao executar query", <<>>)
                     /\ pc' = IF attempt_count < max_attempts
                              THEN "generate_sql" ELSE "generate_final_answer"
               [] outcome = "cancel" ->
                     /\ pc' = "RAISED"
                     /\ UNCHANGED <<query_results, row_count, sql_error>>
    /\ UNCHANGED <<dataset_schema, retrieved_examples, generated_sql, validated_sql,
                   final_answer, attempt_count, max_attempts, validatorVars, generated>>

\* execute_sql_node; bq_client.aquery returns rows (some or none), raises an
\* Exception, or the await is cancelled (CancelledError is no Exception).
execute_sql_node ==
    /\ pc = "execute_sql"
    /\ UNCHANGED <<sharedVars, sessionVars>>
    /\ executed' = Append(executed, Get(validated_sql))
    /\ \E outcome \in {"rows", "empty", "raise", "cancel"} :
          /\ exec_outcome' = Some(outcome)
          /\ CASE outcome = "rows" ->
                     /\ query_results' = Some(<<"row">>) /\ row_count' = Some(1)
                     /\ pc' = "generate_final_answer" /\ UNCHANGED sql_error
               [] outcome = "empty" ->
                     /\ query_results' = Some(<<>>) /\ row_count' = Some(0)
                     /\ pc' = "generate_final_answer" /\ UNCHANGED sql_error
               [] outcome = "raise" ->
                     /\ query_results' = None /\ row_count' = Some(0)
                     /\ sql_error' = Error("Erro ao executar query", <<>>)
                     /\ pc' = "generate_final_answer"
               [] outcome = "cancel" ->
                     /\ pc' = "RAISED"
                     /\ UNCHANGED <<query_results, row_count, sql_error>>
    /\ UNCHANGED <<dataset_schema, retrieved_examples, generated_sql, validated_sql,
                   final_answer, attempt_count, max_attempts, validatorVars, generated>>

\* generate_final_answer_node; llm.ainvoke returns content (maybe empty) or raises.
generate_final_answer_node ==
    /\ pc = "generate_final_answer"
    /\ UNCHANGED <<sharedVars, sessionVars>>
    /\ \E response \in {"answer", "", "raise"} :
          LET results == IF IsNone(query_results) THEN <<>> ELSE Get(query_results)
              sql_query == IF IsNone(validated_sql) THEN <<>> ELSE Get(validated_sql)
          IN  IF response = "raise"
              THEN pc' = "RAISED" /\ UNCHANGED final_answer
              ELSE /\ pc' = "END"
                   /\ final_answer' =
                        IF response # "" THEN Some(response)
                        ELSE IF results # <<>>
                        THEN Some("Query executada com sucesso.")
                        ELSE IF sql_query # <<>>
                        THEN Some("Query executada mas não retornou resultados.")
                        ELSE Some("Não foi possível processar sua solicitação.")
    /\ UNCHANGED <<dataset_schema, retrieved_examples, generated_sql, validated_sql,
                   sql_error, query_results, row_count, attempt_count, max_attempts,
                   validatorVars, executed, exec_outcome, generated>>

Next ==
    \/ setup_schema_node
    \/ retrieve_examples_node
    \/ generate_sql_node
    \/ validate_sql_node
    \/ should_continue_to_execute
    \/ execute_sql_node
    \/ generate_final_answer_node

Spec == Init /\ [][Next]_vars

\* graph.ainvoke runs the node that is due as long as there is one; every
\* collaborator call returns or raises.
LiveSpec == Spec /\ WF_vars(Next)

(***************************************************************************)
(* ConcurrentSpec: several callers inside get_sql_validator and validate   *)
(* at once, each step of validate interleaved with the steps of the others *)
(***************************************************************************)
NumCallers == 2

Callers == 1..NumCallers

\* The queries the callers validate.
CallerQueries ==
    {<<"DROP", " ", "TABLE", " ", "x">>,
     <<"SELECT", " ", "*", " ", "FROM", " ", "t", " ", "UNION", " ", "SELECT", " ", "*",
       " ", "FROM", " ", "u", ";">>,
     SelectFromWhere
        \o Predicate(<<"porto_atracacao">>, <<"%", "porto", " ", "de", " ", "itaqui", "%">>)
        \o <<" ", "LIMIT", " ", "10">>}

\* The locals of one call: where it is, its argument, the object it uses and
\* the locals errors, warnings, sanitized_query of validate; result once it
\* returned.
NewCall(q) ==
    [at |-> "get_sql_validator", query |-> q, self |-> 0,
     errors |-> <<>>, warnings |-> <<>>, sanitized_query |-> <<>>, result |-> None]

InitConcurrent ==
    /\ pc = "concurrent"
    /\ query = None /\ verdict = None /\ normalized = None
    /\ TurnIdle
    /\ \E created \in BOOLEAN :
          IF created
          THEN instances = <<NewValidator>> /\ validator_instance = Some(1)
          ELSE instances = <<>> /\ validator_instance = None
    /\ calls \in [Callers -> {NewCall(q) : q \in CallerQueries}]
    /\ SessionEmpty

turnAndValidatorVars == <<pc, query, verdict, normalized, turnVars>>

\* get_sql_validator, the test of line 277: the singleton exists, or not yet.
get_sql_validator_test(c) ==
    /\ calls[c].at = "get_sql_validator"
    /\ calls' = [calls EXCEPT ![c] =
                    IF IsNone(validator_instance)
                    THEN [@ EXCEPT !.at = "create"]
                    ELSE [@ EXCEPT !.at = "normalize", !.self = Get(validator_instance)]]
    /\ UNCHANGED <<instances, validator_instance, turnAndValidatorVars, sessionVars>>

\* get_sql_validator, line 278: a new object becomes the singleton.
get_sql_validator_create(c) ==
    /\ calls[c].at = "create"
    /\ instances' = Append(instances, NewValidator)
    /\ validator_instance' = Some(Len(instances) + 1)
    /\ calls' = [calls EXCEPT ![c] =
                    [@ EXCEPT !.at = "normalize", !.self = Len(instances) + 1]]
    /\ UNCHANGED <<turnAndValidatorVars, sessionVars>>

\* validate, lines 37-44.
validate_normalize(c) ==
    /\ calls[c].at = "normalize"
    /\ calls' = [calls EXCEPT ![c] =
                    [@ EXCEPT !.at = "checks", !.errors = <<>>, !.warnings = <<>>,
                              !.sanitized_query = Normalize(calls[c].query)]]
    /\ UNCHANGED <<instances, validator_instance, turnAndValidatorVars, sessionVars>>

\* The errors of lines 46-57 for the text q.
CheckErrors(q, forbidden_found) ==
    (IF forbidden_found # <<>>
     THEN <<[msg |-> "Comandos não permitidos encontrados", names |-> forbidden_found]>>
     ELSE <<>>)
    \o (IF ~check_allowed_prefix(q)
        THEN <<[msg |-> "Query deve começar com SELECT, WITH, ou SHOW", names |-> <<>>]>>
        ELSE <<>>)

\* validate, lines 46-57.
validate_checks(c) ==
    /\ calls[c].at = "checks"
    /\ calls' = [calls EXCEPT ![c] =
                    [@ EXCEPT !.at = "limit",
                              !.errors = @ \o CheckErrors(calls[c].sanitized_query,
                                    check_forbidden_keywords(calls[c].sanitized_query))]]
    /\ UNCHANGED <<instances, validator_instance, turnAndValidatorVars, sessionVars>>

\* _add_limit with the max_rows of the object self.
AddLimitOf(q, rows) == Strip(RStripChar(q, ";")) \o <<"\n", "LIMIT", " ", ToString(rows)>>

\* A faulty LIMIT step, for testing the properties: it counts its uses in
\* the max_rows field of the shared object.
validate_limit_counting(c) ==
    /\ calls[c].at = "limit"
    /\ calls' = [calls EXCEPT ![c] =
                    IF ~has_limit(@.sanitized_query)
                    THEN [@ EXCEPT !.at = "injection",
                             !.warnings = Append(@,
                                [msg |-> "Query sem LIMIT pode retornar muitos registros. Adicionando LIMIT",
                                 names |-> <<ToString(instances[calls[c].self].max_rows)>>]),
                             !.sanitized_query =
                                AddLimitOf(@, instances[calls[c].self].max_rows)]
                    ELSE [@ EXCEPT !.at = "injection"]]
    /\ instances' = [instances EXCEPT ![calls[c].self].max_rows = @ + 1]
    /\ UNCHANGED <<validator_instance, turnAndValidatorVars, sessionVars>>

\* validate, lines 59-65.
validate_limit(c) ==
    /\ calls[c].at = "limit"
    /\ calls' = [calls EXCEPT ![c] =
                    IF ~has_limit(@.sanitized_query)
                    THEN [@ EXCEPT !.at = "injection",
                             !.warnings = Append(@,
                                [msg |-> "Query sem LIMIT pode retornar muitos registros. Adicionando LIMIT",
                                 names |-> <<ToString(instances[calls[c].self].max_rows)>>]),
                             !.sanitized_query =
                                AddLimitOf(@, instances[calls[c].self].max_rows)]
                    ELSE [@ EXCEPT !.at = "injection"]]
    /\ UNCHANGED <<instances, validator_instance, turnAndValidatorVars, sessionVars>>

\* The warning of lines 67-72 for the patterns found.
InjectionWarning(injection_patterns) ==
    IF injection_patterns # <<>>
    THEN <<[msg |-> "Padrões suspeitos detectados", names |-> injection_patterns]>>
    ELSE <<>>

\* validate, lines 67-72.
validate_injection(c) ==
    /\ calls[c].at = "injection"
    /\ calls' = [calls EXCEPT ![c] =
                    [@ EXCEPT !.at = "where",
                              !.warnings = @ \o InjectionWarning(
                                    check_injection_patterns(calls[c].sanitized_query))]]
    /\ UNCHANGED <<instances, validator_instance, turnAndValidatorVars, sessionVars>>

\* validate, lines 74-79.
validate_where(c) ==
    /\ calls[c].at = "where"
    /\ calls' = [calls EXCEPT ![c] =
                    [@ EXCEPT !.at = "return",
                              !.warnings =
                                 IF /\ ~has_where(calls[c].sanitized_query)
                                    /\ Contains(calls[c].sanitized_query, "FROM")
                                 THEN Append(@,
                                    [msg |-> "Query sem WHERE pode fazer table scan. Recomendado adicionar filtro de ano.",
                                     names |-> <<>>])
                                 ELSE @]]
    /\ UNCHANGED <<instances, validator_instance, turnAndValidatorVars, sessionVars>>

\* validate, lines 81-86.
validate_return(c) ==
    /\ calls[c].at = "return"
    /\ calls' = [calls EXCEPT ![c] =
                    [@ EXCEPT !.at = "returned",
                              !.result = Some([is_valid |-> Len(calls[c].errors) = 0,
                                               errors |-> calls[c].errors,
                                               warnings |-> calls[c].warnings,
                                               sanitized_query |-> calls[c].sanitized_query])]]
    /\ UNCHANGED <<instances, validator_instance, turnAndValidatorVars, sessionVars>>

NextConcurrent ==
    \E c \in Callers :
        \/ get_sql_validator_test(c)
        \/ get_sql_validator_create(c)
        \/ validate_normalize(c)
        \/ validate_checks(c)
        \/ validate_limit(c)
        \/ validate_injection(c)
        \/ validate_where(c)
        \/ validate_return(c)

ConcurrentSpec == InitConcurrent /\ [][NextConcurrent]_vars

(***************************************************************************)
(* The results cache of the chat tab (src/app/components/chat_tab.py)      *)
(*                                                                         *)
(* The cache is a dict whose keys are the strings str(message_idx).  A     *)
(* string of digits is the sequence of its digits; sorted() compares the   *)
(* keys as Python compares strings, character by character.  A result set  *)
(* is [rows |-> its length, of |-> the question it answers].               *)
(***************************************************************************)
MAX_MESSAGES_IN_HISTORY == 50
MAX_CACHED_RESULTS == 10

\* str(n) for n >= 0.
RECURSIVE Str(_)
Str(n) == IF n < 10 THEN <<n>> ELSE Append(Str(n \div 10), n % 10)

\* a < b on strings.
RECURSIVE StrLess(_, _)
StrLess(a, b) ==
    IF a = <<>> THEN b # <<>>
    ELSE IF b = <<>> THEN FALSE
    ELSE IF a[1] # b[1] THEN a[1] < b[1]
    ELSE StrLess(Tail(a), Tail(b))

\* Faulty variant: the cache is trimmed only once it is over the limit.
EvictedKeysWhenOver(cache) ==
    IF Cardinality(DOMAIN cache) > MAX_CACHED_RESULTS
    THEN {k \in DOMAIN cache :
            Cardinality({j \in DOMAIN cache : StrLess(j, k)})
                < Cardinality(DOMAIN cache) - MAX_CACHED_RESULTS + 1}
    ELSE {}

\* Lines 39-43: sorted(cache.keys())[:len(cache) - MAX_CACHED_RESULTS + 1]
\* when the cache is full, nothing otherwise.
EvictedKeys(cache) ==
    IF Cardinality(DOMAIN cache) >= MAX_CACHED_RESULTS
    THEN {k \in DOMAIN cache :
            Cardinality({j \in DOMAIN cache : StrLess(j, k)})
                < Cardinality(DOMAIN cache) - MAX_CACHED_RESULTS + 1}
    ELSE {}

\* Lines 46-52: the entry stored for a result set.
CacheEntry(results, sql) ==
    [results |-> IF results.rows <= 1000 THEN Some(results) ELSE None,
     row_count |-> results.rows,
     sql |-> sql,
     truncated |-> results.rows > 1000]

\* The dict save_result_to_cache stores back in the session.
SavedCache(cache, message_idx, results, sql) ==
    [k \in (DOMAIN cache \ EvictedKeys(cache)) \cup {Str(message_idx)} |->
        IF k = Str(message_idx) THEN CacheEntry(results, sql) ELSE cache[k]]

save_result_to_cache(message_idx, results, sql) ==
    /\ query_results_cache' = SavedCache(query_results_cache, message_idx, results, sql)
    /\ evicted' = EvictedKeys(query_results_cache)
    /\ increasing_to' = IF ~IsNone(increasing_to) /\ message_idx > Get(increasing_to)
                        THEN Some(message_idx)
                        ELSE None

get_cached_result(message_idx) ==
    IF Str(message_idx) \in DOMAIN query_results_cache
    THEN Some(query_results_cache[Str(message_idx)])
    ELSE None

clear_results_cache ==
    /\ query_results_cache' = EmptyDict
    /\ evicted' = {}
    /\ increasing_to' = Some(-1)

(***************************************************************************)
(* CacheSpec: callers of save_result_to_cache and clear_results_cache with *)
(* any message indices, as test_results_cache calls them                   *)
(***************************************************************************)
MaxMessageIdx == 12     \* message indices range over 0..MaxMessageIdx

InitCache ==
    /\ pc = "cache"
    /\ query = None /\ verdict = None /\ normalized = None
    /\ TurnIdle
    /\ SingletonReady
    /\ SessionEmpty

\* save_result_to_cache(i, list(range(100)), f"SELECT * FROM table_{i}")
CallSave ==
    /\ pc = "cache"
    /\ \E i \in 0..MaxMessageIdx :
          save_result_to_cache(i, [rows |-> 100, of |-> i], i)
    /\ UNCHANGED <<chat_messages, asked, sharedVars, turnAndValidatorVars>>

CallClear ==
    /\ pc = "cache"
    /\ clear_results_cache
    /\ UNCHANGED <<chat_messages, asked, sharedVars, turnAndValidatorVars>>

NextCache == CallSave \/ CallClear

CacheSpec == InitCache /\ [][NextCache]_vars

(***************************************************************************)
(* ChatSpec: the chat tab, one submission of a question after another      *)
(*                                                                         *)
(* The k-th question of a conversation is the number k; the answer, the    *)
(* SQL and the result set of a question carry its number.                  *)
(***************************************************************************)
MaxQuestions == 26      \* questions submitted in one conversation
MaxWithoutRows == 1     \* answers without rows in the history at a time

InitChat ==
    /\ pc = "chat"
    /\ query = None /\ verdict = None /\ normalized = None
    /\ TurnIdle
    /\ SingletonReady
    /\ SessionEmpty

\* SessionManager.add_chat_message followed by the update of the last
\* message (lines 234-236, 266-270).
UserMessage(prompt) == [role |-> "user", content |-> prompt]

AssistantMessage(answer, results) ==
    [role |-> "assistant", content |-> answer,
     has_results |-> results.rows > 0, row_count |-> results.rows,
     error_detail |-> FALSE]

ErrorMessage(prompt) ==
    [role |-> "assistant", content |-> prompt,
     has_results |-> FALSE, row_count |-> 0, error_detail |-> TRUE]

\* Lines 166-171: the history the new messages are added to.
TrimmedHistory(messages) ==
    IF Len(messages) >= MAX_MESSAGES_IN_HISTORY
    THEN SubSeq(messages, Len(messages) - MAX_MESSAGES_IN_HISTORY + 2 + 1, Len(messages))
    ELSE messages

\* Assistant messages of the history that came without rows.
WithoutRows(messages) ==
    {i \in 1..Len(messages) :
        messages[i].role = "assistant" /\ ~messages[i].has_results}

\* show_chat_tab with the button "Consultar" pressed: an empty prompt
\* returns at once; otherwise query_agente returns rows, returns none, or
\* raises.
Submit ==
    /\ pc = "chat"
    /\ asked < MaxQuestions
    /\ \E empty_prompt \in BOOLEAN, outcome \in {"rows", "empty", "raise"} :
          IF empty_prompt
          THEN UNCHANGED sessionVars
          ELSE LET prompt == asked + 1
                   messages == Append(TrimmedHistory(chat_messages), UserMessage(prompt))
                   message_idx == Len(messages)
                   results == [rows |-> IF outcome = "rows" THEN 5 ELSE 0, of |-> prompt]
               IN  /\ outcome # "rows" =>
                          Cardinality(WithoutRows(messages)) < MaxWithoutRows
                   /\ asked' = asked + 1
                   /\ IF outcome = "raise"
                      THEN /\ chat_messages' = Append(messages, ErrorMessage(prompt))
                           /\ UNCHANGED <<query_results_cache, evicted, increasing_to>>
                      ELSE /\ chat_messages' =
                                Append(messages, AssistantMessage(prompt, results))
                           /\ IF results.rows > 0
                              THEN save_result_to_cache(message_idx, results, prompt)
                              ELSE UNCHANGED <<query_results_cache, evicted, increasing_to>>
    /\ UNCHANGED <<sharedVars, turnAndValidatorVars>>

\* The button "Nova conversa" (lines 105-110).
NewConversation ==
    /\ pc = "chat"
    /\ chat_messages # <<>>
    /\ chat_messages' = <<>>
    /\ clear_results_cache
    /\ asked' = 0
    /\ UNCHANGED <<sharedVars, turnAndValidatorVars>>

NextChat == Submit \/ NewConversation

ChatSpec == InitChat /\ [][NextChat]_vars

(***************************************************************************)
(* Properties of a turn (Spec)                                             *)
(***************************************************************************)
\* The verdict held in the state is the one of the query generated last.
VerdictOfLastGenerated ==
    /\ ~IsNone(verdict) /\ ~IsNone(query)
    /\ generated # <<>> /\ Get(query) = generated[Len(generated)]
    /\ query = generated_sql

\* C1: bq_client.aquery is only ever called with the sanitized_query that
\* validate returned, with is_valid true, for the query generated last (the
\* validate_sql step just before): both when execute_sql is about to call it
\* and for every call made so far.
C1_ExecutesOnlyFreshlyValidated ==
    /\ pc = "execute_sql" =>
          /\ ~IsNone(validated_sql)
          /\ VerdictOfLastGenerated
          /\ Get(verdict).is_valid
          /\ Get(validated_sql) = Get(verdict).sanitized_query
    /\ executed # <<>> =>
          /\ Len(executed) = 1
          /\ VerdictOfLastGenerated
          /\ Get(verdict).is_valid
          /\ executed[1] = Get(verdict).sanitized_query

\* C1 witness: the call happened on a second attempt, after a rejected one
\* (so an earlier attempt exists whose text could have been left over).
C1_Witness ==
    /\ Len(executed) = 1 /\ attempt_count = 2
    /\ ~validate(generated[1]).is_valid
    /\ executed[1] # generated[2]

\* C4 (as stated): after validate_sql processed a generated query with a valid
\* verdict, the conditional edge leads to execute_sql, whatever attempt_count
\* in 1..max_attempts.
C4_ValidVerdictLeadsToExecute ==
    (/\ pc = "should_continue_to_execute"
     /\ VerdictOfLastGenerated
     /\ Get(verdict).is_valid)
    => EdgeTarget(Route) = "execute_sql"

\* Every query generated so far was refused: none, or with an invalid verdict.
AllGeneratedInvalid ==
    \A i \in 1..Len(generated) :
        generated[i] = <<>> \/ ~validate(generated[i]).is_valid

\* C5: while the generator has returned only invalid queries, nothing is
\* executed, no final answer is set, validated_sql is null and the edge out
\* of validate_sql leads back to generate_sql while attempts are left and to
\* END otherwise; at END, generate_sql ran exactly max_attempts times,
\* attempt_count = max_attempts and sql_error is set.
C5_AlwaysInvalidEndsAfterMaxAttempts ==
    AllGeneratedInvalid =>
        /\ executed = <<>> /\ IsNone(final_answer) /\ IsNone(validated_sql)
        /\ pc = "should_continue_to_execute" =>
              /\ ~IsNone(sql_error)
              /\ EdgeTarget(Route) =
                    IF attempt_count < max_attempts THEN "generate_sql" ELSE "END"
        /\ pc = "END" =>
              /\ Len(generated) = max_attempts
              /\ attempt_count = max_attempts
              /\ ~IsNone(sql_error)

\* C5 witness: always "DROP TABLE x" with max_attempts = 2, at END.
C5_Witness ==
    /\ pc = "END" /\ max_attempts = 2
    /\ generated = <<<<"DROP", " ", "TABLE", " ", "x">>,
                     <<"DROP", " ", "TABLE", " ", "x">>>>

\* C6: attempt_count counts the calls of the generator and never exceeds
\* max_attempts.
C6_AttemptCountBounded ==
    /\ attempt_count = Len(generated)
    /\ attempt_count <= max_attempts

\* C6 witness: the bound is met, by a turn that used all of its attempts.
C6_Witness == attempt_count = max_attempts /\ max_attempts = MaxAttempts

\* C7: when bq_client.aquery raises an Exception, execute_sql_node completes
\* (the turn goes on to generate_final_answer) with sql_error set,
\* query_results null and row_count 0; from then on attempt_count does not
\* change and neither generate_sql nor validate_sql is entered.
C7_ExecutionFailureIsTerminal ==
    [][/\ (pc = "execute_sql" /\ exec_outcome' = Some("raise")) =>
              /\ pc' = "generate_final_answer"
              /\ ~IsNone(sql_error') /\ IsNone(query_results')
              /\ row_count' = Some(0)
       /\ exec_outcome = Some("raise") =>
              /\ attempt_count' = attempt_count
              /\ generated' = generated
              /\ pc' \notin {"generate_sql", "validate_sql"}
              /\ ~IsNone(sql_error') /\ IsNone(query_results')]_vars

\* C7 witness: the execution failed with attempts left, and the turn ended.
C7_Witness ==
    /\ exec_outcome = Some("raise") /\ attempt_count < max_attempts
    /\ pc = "END" /\ ~IsNone(sql_error) /\ row_count = Some(0)

(***************************************************************************)
(* Properties of validate (ValidatorSpec)                                  *)
(***************************************************************************)
IsForbidden(t) == \E k \in 1..Len(FORBIDDEN_KEYWORDS) : t = FORBIDDEN_KEYWORDS[k]

\* The lexemes of text that are a forbidden keyword as a whole word, in any case.
ForbiddenIn(text) ==
    {Upper(text[i]) : i \in {j \in 1..Len(text) :
                                IsForbidden(Upper(text[j])) /\ WholeWord(text, j)}}

NamedInErrors(v) ==
    UNION {{e.names[k] : k \in 1..Len(e.names)} : e \in {v.errors[j] : j \in 1..Len(v.errors)}}

\* C2 (as stated): a query that holds a forbidden keyword as a whole word is
\* invalid, and the errors name the keywords it holds.
C2_ForbiddenKeywordRejected ==
    (pc = "returned" /\ ForbiddenIn(query) # {}) =>
        /\ ~Get(verdict).is_valid
        /\ ForbiddenIn(query) \subseteq NamedInErrors(Get(verdict))

\* C3 (as stated): a query whose trimmed, upper-cased text starts with none of
\* the allowed prefixes is invalid.
C3_PrefixOfInputDecides ==
    (pc = "returned" /\ ~check_allowed_prefix(query)) => ~Get(verdict).is_valid

AccentedKeywordsIn(text) ==
    {Upper(strip_accents(text[i])) :
        i \in {j \in 1..Len(text) : /\ strip_accents(text[j]) # text[j]
                                    /\ IsForbidden(Upper(strip_accents(text[j])))}}

HasLimitClause(text) ==
    \E i \in 1..Len(text) :
        /\ Upper(text[i]) = "LIMIT" /\ WholeWord(text, i)
        /\ SkipSpace(text, i + 1) > i + 1
        /\ SkipSpace(text, i + 1) <= Len(text)

\* C9 (as stated): the sanitized_query holds an explicit row-limiting clause,
\* one that the query already had or one that validate appended.
C9_SanitizedHasLimitClause ==
    pc = "returned" =>
        /\ has_limit(Get(verdict).sanitized_query)
        /\ HasLimitClause(Get(verdict).sanitized_query)

\* The five passes in the order of validate, without the strip before them.
NormalizationChain(s) ==
    normalize_porto_like_accent_insensitive(
        normalize_terminal_like(
            normalize_porto_like(
                normalize_portos_do_parana(
                    normalize_tipo_carga(s)))))

\* C10 (as stated): the chain applied to its own output returns it unchanged,
\* and so does each single pass applied to its own output.
C10_NormalizationIdempotent ==
    pc = "returned" =>
        LET q == Strip(query)
        IN  /\ NormalizationChain(NormalizationChain(q)) = NormalizationChain(q)
            /\ normalize_tipo_carga(normalize_tipo_carga(q)) = normalize_tipo_carga(q)
            /\ normalize_portos_do_parana(normalize_portos_do_parana(q))
                  = normalize_portos_do_parana(q)
            /\ normalize_porto_like(normalize_porto_like(q)) = normalize_porto_like(q)
            /\ normalize_terminal_like(normalize_terminal_like(q))
                  = normalize_terminal_like(q)
            /\ normalize_porto_like_accent_insensitive(
                  normalize_porto_like_accent_insensitive(q))
                  = normalize_porto_like_accent_insensitive(q)

\* The upper-cased lexemes of text that are a column porto_atracacao.
MentionsPortoAtracacao(text) ==
    \E i \in 1..Len(text) : Upper(text[i]) = "PORTO_ATRACACAO"

\* Index of the first lexeme of a predicate column expression on
\* porto_atracacao (the LOWER in front of it included), 0 if there is none.
FirstPortoColumn(text) ==
    LET at == {i \in 1..Len(text) :
                  \/ Upper(text[i]) = "PORTO_ATRACACAO"
                  \/ /\ i + 2 <= Len(text) /\ Upper(text[i]) = "LOWER"
                     /\ Upper(text[i + 2]) = "PORTO_ATRACACAO"}
    IN  IF at = {} THEN 0 ELSE CHOOSE i \in at : \A j \in at : i <= j

\* C11 (as stated): normalization changes only LIKE predicates on the column
\* porto_atracacao and the tipo_carga column names: a query that holds no
\* porto_atracacao column comes back with only those names replaced, and the
\* text in front of the first porto_atracacao column expression is kept.
C11_UnrelatedTextUntouched ==
    pc = "returned" =>
        LET q == Strip(query)
            i == FirstPortoColumn(q)
        IN  /\ ~MentionsPortoAtracacao(q) => Get(normalized) = normalize_tipo_carga(q)
            /\ i > 1 =>
                  /\ Len(Get(normalized)) >= i - 1
                  /\ SubSeq(Get(normalized), 1, i - 1)
                        = normalize_tipo_carga(SubSeq(q, 1, i - 1))

\* The three advisories of validate.
LimitNotice == "Query sem LIMIT pode retornar muitos registros. Adicionando LIMIT"
SuspiciousAdvisory == "Padrões suspeitos detectados"
WhereAdvisory ==
    "Query sem WHERE pode fazer table scan. Recomendado adicionar filtro de ano."

\* The positions of the advisory msg in the warnings of the verdict v.
WarningAt(v, msg) == {i \in 1..Len(v.warnings) : v.warnings[i].msg = msg}
ErrorMsgs(v) == {v.errors[i].msg : i \in 1..Len(v.errors)}

\* C12: is_valid is true exactly when the normalized text has an allowed
\* prefix and holds no forbidden keyword; errors hold nothing but those two
\* findings; a text without the letters LIMIT, a text with FROM and without
\* WHERE, and a suspicious pattern each put their advisory into warnings.
C12_AdvisoriesNeverFlipVerdict ==
    pc = "returned" =>
        LET v == Get(verdict)
            n == Get(normalized)
        IN  /\ v.is_valid <=> (check_allowed_prefix(n) /\ ForbiddenIn(n) = {})
            /\ ErrorMsgs(v) \subseteq {"Comandos não permitidos encontrados",
                                       "Query deve começar com SELECT, WITH, ou SHOW"}
            /\ ~has_limit(n) <=> WarningAt(v, LimitNotice) # {}
            /\ (~has_where(v.sanitized_query) /\ Contains(v.sanitized_query, "FROM"))
                  <=> WarningAt(v, WhereAdvisory) # {}
            /\ check_injection_patterns(v.sanitized_query) # <<>>
                  <=> WarningAt(v, SuspiciousAdvisory) # {}

\* C12 witness: SELECT * FROM t WHERE id = 1 OR 1=1 is valid, with the
\* suspicious-pattern advisory and the LIMIT notice in warnings.
C12_Witness ==
    /\ pc = "returned"
    /\ query = <<"SELECT", " ", "*", " ", "FROM", " ", "t", " ", "WHERE", " ", "id", " ",
                 "=", " ", "1", " ", "OR", " ", "1", "=", "1">>
    /\ Get(verdict).is_valid
    /\ WarningAt(Get(verdict), SuspiciousAdvisory) # {}
    /\ WarningAt(Get(verdict), LimitNotice) # {}

\* A LIMIT token: the whole word LIMIT, in any case.
HasLimitToken(text) ==
    \E i \in 1..Len(text) : Upper(text[i]) = "LIMIT" /\ WholeWord(text, i)

\* C13 (as stated): when the normalized text holds no LIMIT token, the
\* sanitized_query is that text without its trailing semicolon, a newline and
\* LIMIT max_rows, and the LIMIT notice is in warnings; when it holds one, the
\* text is not extended and there is no notice.
C13_LimitAppendedUnlessToken ==
    pc = "returned" =>
        LET v == Get(verdict)
            n == Get(normalized)
        IN  IF HasLimitToken(n)
            THEN v.sanitized_query = n /\ WarningAt(v, LimitNotice) = {}
            ELSE /\ v.sanitized_query
                      = Strip(RStripChar(n, ";")) \o <<"\n", "LIMIT", " ", ToString(max_rows)>>
                 /\ WarningAt(v, LimitNotice) # {}

\* C14 (as stated): the LIMIT notice, when present, is warnings[1]; the WHERE
\* advisory comes before the suspicious-pattern advisory when both are there.
C14_WhereBeforeSuspicious ==
    pc = "returned" =>
        LET v == Get(verdict)
        IN  /\ WarningAt(v, LimitNotice) \subseteq {1}
            /\ \A i \in WarningAt(v, WhereAdvisory), j \in WarningAt(v, SuspiciousAdvisory) :
                  i < j

\* C14 (amended): the LIMIT notice, when present, is warnings[1]; the
\* suspicious-pattern advisory comes before the WHERE advisory when both are
\* there; no advisory occurs twice.
C14_SuspiciousBeforeWhere ==
    pc = "returned" =>
        LET v == Get(verdict)
        IN  /\ WarningAt(v, LimitNotice) \subseteq {1}
            /\ \A i \in WarningAt(v, SuspiciousAdvisory), j \in WarningAt(v, WhereAdvisory) :
                  i < j
            /\ \A msg \in {LimitNotice, SuspiciousAdvisory, WhereAdvisory} :
                  Cardinality(WarningAt(v, msg)) <= 1

\* C14 witness: the three advisories in one verdict.
C14_Witness ==
    /\ pc = "returned"
    /\ WarningAt(Get(verdict), LimitNotice) = {1}
    /\ WarningAt(Get(verdict), SuspiciousAdvisory) = {2}
    /\ WarningAt(Get(verdict), WhereAdvisory) = {3}

\* The values of the LIKE predicates of text: what stands between the quotes.
LikeValues(text) ==
    {SubSeq(text, i + 3, FindQuote(text, i + 3) - 1) :
        i \in {j \in 1..Len(text) - 3 :
                  /\ Upper(text[j]) = "LIKE" /\ text[j + 1] = " " /\ text[j + 2] = "'"
                  /\ FindQuote(text, j + 3) # 0}}

\* The LIKE values of text whose column side is LOWER(porto_atracacao).
LowerPortoLikeValues(text) ==
    {SubSeq(text, i + 3, FindQuote(text, i + 3) - 1) :
        i \in {j \in 6..Len(text) - 3 :
                  /\ SubSeq(text, j - 5, j + 2)
                        = <<"LOWER", "(", "porto_atracacao", ")", " ", "LIKE", " ", "'">>
                  /\ FindQuote(text, j + 3) # 0}}

\* X of a value [%]porto de|da|do X[%], the empty text for any other value.
PortoDeName(value) ==
    LET v == StripChar(value, "%")
    IN  IF /\ Len(v) >= 5 /\ Lower(v[1]) = "porto" /\ v[2] = " "
           /\ Lower(v[3]) \in {"de", "da", "do"} /\ v[4] = " "
           /\ \A k \in 1..Len(v) : v[k] # "%"
        THEN SubSeq(v, 5, Len(v)) ELSE <<>>

\* The accent-stripped, case-folded projection of porto_atracacao.
PortoProjection ==
    <<"REGEXP_REPLACE", "(", "NORMALIZE", "(", "LOWER", "(", "porto_atracacao", ")",
      ",", " ", "NFD", ")", ",", " ", "r", "'", "\\", "pM", "'", ",", " ", "'", "'", ")">>

IsInfix(a, text) ==
    \E i \in 0..(Len(text) - Len(a)) : SubSeq(text, i + 1, i + Len(a)) = a

\* C15 (as stated): LOWER(porto_atracacao) LIKE '[%]porto de|da|do X[%]' comes
\* out as the projection of the column LIKE '%X%', for every X.
C15_PortoDeCollapsesToName ==
    pc = "returned" =>
        \A value \in LowerPortoLikeValues(query) :
            PortoDeName(value) # <<>> =>
                IsInfix(PortoProjection \o <<" ", "LIKE", " ", "'", "%">>
                            \o PortoDeName(value) \o <<"%", "'">>,
                        Get(verdict).sanitized_query)

\* The expansion of portos do paraná, after the accent-insensitive rewrite.
ParanaExpansion ==
    <<"(">> \o PortoProjection \o <<" ", "LIKE", " ", "'", "%", "paranagua", "%", "'">>
    \o <<" ", "OR", " ">>
    \o PortoProjection \o <<" ", "LIKE", " ", "'", "%", "antonina", "%", "'", ")">>

\* The query holds a LIKE predicate on porto_atracacao whose value names the
\* ports of Paraná.
AsksPortosDoParana ==
    /\ MentionsPortoAtracacao(query)
    /\ \E value \in LikeValues(query) : HasPortosDoParana(value)

\* C16: a LIKE predicate on porto_atracacao whose value holds porto(s) do
\* parana comes out as the OR of the paranagua and the antonina predicate on
\* the case-folded column; no other LIKE value is left, so neither the phrase
\* nor %parana% is.
C16_ParanaExpandedBeforeCollapse ==
    (pc = "returned" /\ AsksPortosDoParana) =>
        /\ IsInfix(ParanaExpansion, Get(verdict).sanitized_query)
        /\ LikeValues(Get(verdict).sanitized_query)
              = {<<"%", "paranagua", "%">>, <<"%", "antonina", "%">>}

\* C16 witness: the value is porto do paraná, which the porto-de collapse
\* alone would turn into %paraná%.
C16_Witness ==
    /\ pc = "returned" /\ AsksPortosDoParana
    /\ <<"%", "porto", " ", "do", " ", "paraná", "%">> \in LikeValues(query)
    /\ LikeValues(normalize_porto_like(query)) = {<<"%", "paraná", "%">>}

\* The words that the terminal pass is to remove.
StrippedWords ==
    {"terminal", "terminais", "porto", "portuário", "portuários", "de", "da", "do"}

\* C17 (as stated): a LIKE value on porto_atracacao that holds one of the
\* words and something else comes out as the remaining words wrapped in %:
\* none of the words is left, and a word stands next to each %.
C17_TerminalWordsStripped ==
    (/\ pc = "returned" /\ MentionsPortoAtracacao(query)
     /\ \E value \in LikeValues(query) :
           /\ \E k \in 1..Len(value) : Lower(value[k]) \in StrippedWords
           /\ \E k \in 1..Len(value) : IsWord(value[k]) /\ Lower(value[k]) \notin StrippedWords)
    => \A out \in LikeValues(Get(verdict).sanitized_query) :
           /\ \A k \in 1..Len(out) : Lower(out[k]) \notin StrippedWords
           /\ Len(out) >= 3
           /\ out[1] = "%" /\ IsWord(out[2])
           /\ IsWord(out[Len(out) - 1]) /\ out[Len(out)] = "%"

(***************************************************************************)
(* Further properties of a turn (Spec)                                     *)
(***************************************************************************)
NoQueryError == Error("Nenhuma query foi gerada.", <<>>)

\* C18: when the generated query is empty or null, validate_sql_node leaves
\* the validator alone (no call: its last argument and verdict are what they
\* were), sets validated_sql to null and sql_error to the no-query message,
\* and the edge taken from there does not lead to execute_sql.
C18_EmptyQueryShortCircuits ==
    [][/\ (pc = "validate_sql" /\ (IsNone(generated_sql) \/ Get(generated_sql) = <<>>)) =>
              /\ UNCHANGED validatorVars
              /\ IsNone(validated_sql')
              /\ sql_error' = NoQueryError
       /\ (pc = "should_continue_to_execute" /\ sql_error = NoQueryError) =>
              pc' # "execute_sql"]_vars

\* C18 witness: an empty query on the second attempt, after a query that the
\* validator did see, and with an attempt left.
C18_Witness ==
    /\ pc = "should_continue_to_execute" /\ sql_error = NoQueryError
    /\ attempt_count = 2 /\ max_attempts = 3
    /\ generated[2] = <<>> /\ generated[1] # <<>>
    /\ ~IsNone(verdict) /\ Get(query) = generated[1]

\* C19 (as stated): a raising or cancelled call of the LLM (generate_sql,
\* generate_final_answer) or of the execution does not escape query_agente:
\* the turn is never left by an exception once the graph is past
\* retrieve_examples.
C19_NoExceptionEscapesTheTurn ==
    ~(pc = "RAISED" /\ ~IsNone(retrieved_examples))

(***************************************************************************)
(* Properties of concurrent calls (ConcurrentSpec)                         *)
(***************************************************************************)
\* C20: whatever the interleaving, a call of validate that returned has the
\* verdict that validate gives for its query alone, and no field of any
\* validator object differs from what __init__ stored.
C20_ValidateUnaffectedByOtherCalls ==
    pc = "concurrent" =>
        /\ \A c \in Callers :
              calls[c].at = "returned" => Get(calls[c].result) = validate(calls[c].query)
        /\ \A i \in 1..Len(instances) : instances[i] = NewValidator

\* C20 witness: two calls on different queries have returned, one of them
\* with an appended LIMIT, after both went through the creation of the
\* singleton.
C20_Witness ==
    /\ pc = "concurrent"
    /\ calls[1].at = "returned" /\ calls[2].at = "returned"
    /\ calls[1].query # calls[2].query
    /\ ~has_limit(Normalize(calls[1].query))
    /\ Len(instances) = 2

(***************************************************************************)
(* Properties of the results cache (CacheSpec)                             *)
(***************************************************************************)
\* The message index a key of the cache was made from.
RECURSIVE KeyIndex(_)
KeyIndex(s) ==
    IF Len(s) = 1 THEN s[1] ELSE 10 * KeyIndex(SubSeq(s, 1, Len(s) - 1)) + s[Len(s)]

\* C21: after any sequence of save_result_to_cache calls, with new or
\* repeated message indices, the results cache holds at most
\* MAX_CACHED_RESULTS entries.
C21_CacheHoldsAtMostMax ==
    Cardinality(DOMAIN query_results_cache) <= MAX_CACHED_RESULTS

\* A call on a full cache deleted a key and stored its own: the cache is at
\* the limit again.
C21_Witness ==
    /\ evicted # {}
    /\ Cardinality(DOMAIN query_results_cache) = MAX_CACHED_RESULTS

\* C22: when the cache is full, save_result_to_cache evicts the entry with
\* the numerically smallest message index, for every sequence of increasing
\* message indices, and keeps the entries newer than the evicted one: every
\* key left in the cache is numerically larger than the key deleted.
C22_EvictsSmallestIndex ==
    (~IsNone(increasing_to) /\ evicted # {}) =>
        \A e \in evicted : \A k \in DOMAIN query_results_cache :
            KeyIndex(e) < KeyIndex(k)

(***************************************************************************)
(* Properties of a turn (Spec): the router, the counters, termination      *)
(***************************************************************************)
\* C23: whenever validate_sql leaves sql_error non-null, the next step is
\* generate_sql if and only if attempt_count < max_attempts; otherwise the
\* turn goes to END, with the error kept in sql_error, and
\* generate_final_answer is not run: final_answer stays null.
C23_RouterAfterInvalidVerdict ==
    /\ [][(pc = "should_continue_to_execute" /\ ~IsNone(sql_error)) =>
              /\ pc' = IF attempt_count < max_attempts THEN "generate_sql" ELSE "END"
              /\ pc' \in {"generate_sql", "END"}
              /\ sql_error' = sql_error
              /\ IsNone(final_answer')]_vars
    /\ []((pc = "END" /\ executed = <<>>) =>
              /\ ~IsNone(sql_error) /\ IsNone(final_answer)
              /\ attempt_count >= max_attempts)

\* C23 witness: both branches were taken in one turn; an invalid verdict with
\* attempts left sent the turn back to generate_sql, a later one with none
\* left ended it.
C23_Witness ==
    /\ pc = "END" /\ executed = <<>>
    /\ Len(generated) > 1
    /\ ~IsNone(sql_error) /\ IsNone(final_answer)

\* C24: attempt_count is changed only by generate_sql, by exactly +1 per
\* run that returns; setup_schema, retrieve_examples, validate_sql, the
\* router, execute_sql and generate_final_answer leave it unchanged, and no
\* step of a turn changes max_attempts.
C24_OnlyGenerateSqlCounts ==
    [][/\ max_attempts' = max_attempts
       /\ attempt_count' # attempt_count => pc = "generate_sql"
       /\ (pc = "generate_sql" /\ pc' = "validate_sql") =>
              attempt_count' = attempt_count + 1
       /\ pc # "generate_sql" => attempt_count' = attempt_count]_vars

\* C24 witness: a turn in which every node ran and generate_sql ran twice.
C24_Witness ==
    /\ pc = "END" /\ ~IsNone(final_answer) /\ executed # <<>>
    /\ Len(generated) = 2 /\ attempt_count = 2

\* The turn has stopped: at END, or with an exception leaving graph.ainvoke.
Stopped == pc \in {"END", "RAISED"}

\* C25: every run of the graph eventually reaches END, for every
\* max_attempts and every sequence of generated queries, each collaborator
\* call returning or raising; the only cycle is validate_sql -> generate_sql,
\* taken at most max_attempts - 1 times, so that every other node runs at
\* most once.
C25_EveryTurnReachesEnd ==
    /\ <>(pc = "END")
    /\ [][/\ (pc = "should_continue_to_execute" /\ pc' = "generate_sql") =>
                 Len(generated) <= max_attempts - 1
          /\ pc' = "setup_schema" => pc = "setup_schema"
          /\ pc' = "retrieve_examples" => pc \in {"setup_schema", "retrieve_examples"}
          /\ pc \in {"execute_sql", "generate_final_answer"} =>
                 pc' \notin {"generate_sql", "validate_sql", "execute_sql"}]_vars

\* C26: every text passed to bq_client.aquery holds no forbidden keyword as
\* a whole word and starts with an allowed prefix; it is the normalized text
\* on which the two checks ran and passed, either as it is or with its
\* trailing semicolons and whitespace removed and "\nLIMIT <max_rows>"
\* appended.
C26_ExecutedTextPassedTheChecks ==
    \A i \in 1..Len(executed) :
        /\ check_forbidden_keywords(executed[i]) = <<>>
        /\ check_allowed_prefix(executed[i])
        /\ ~IsNone(normalized)
        /\ check_forbidden_keywords(Get(normalized)) = <<>>
        /\ check_allowed_prefix(Get(normalized))
        /\ \/ executed[i] = Get(normalized)
           \/ executed[i] = Strip(RStripChar(Get(normalized), ";"))
                                \o <<"\n", "LIMIT", " ", ToString(max_rows)>>

\* C26 witness: a query ending in a semicolon was executed with the
\* semicolon removed and the LIMIT appended.
C26_Witness ==
    /\ executed # <<>>
    /\ Get(normalized)[Len(Get(normalized))] = ";"
    /\ executed[1] # Get(normalized)
    /\ executed[1][Len(executed[1])] = ToString(max_rows)

\* C27: immediately after every run of validate_sql exactly one of sql_error
\* and validated_sql is non-null, and a non-null validated_sql is a
\* non-empty text: the router never takes its last branch (no error and no
\* validated SQL).
C27_ExactlyOneOfErrorAndValidated ==
    pc = "should_continue_to_execute" =>
        /\ IsNone(sql_error) # IsNone(validated_sql)
        /\ ~IsNone(validated_sql) => Get(validated_sql) # <<>>
        /\ IsNone(sql_error) => Route = "execute"
        /\ Route = "end" => ~IsNone(sql_error)

\* C27 witness: a query accepted after a rejected one; the error of the
\* previous attempt was cleared.
C27_Witness ==
    /\ pc = "should_continue_to_execute"
    /\ Len(generated) > 1
    /\ ~IsNone(validated_sql) /\ IsNone(sql_error)

\* bq_client.aquery returned rows, some or none.
ExecutionSucceeded == exec_outcome \in {Some("rows"), Some("empty")}

\* C28: generate_final_answer runs only after execute_sql completed without
\* bq_client.aquery raising; at END a non-null final_answer implies that
\* sql_error is null and that query_results holds the rows of a successful
\* execution.
C28_FinalAnswerOnSuccessOnly ==
    /\ pc = "generate_final_answer" => ExecutionSucceeded
    /\ (pc = "END" /\ ~IsNone(final_answer)) =>
          /\ IsNone(sql_error)
          /\ ExecutionSucceeded
          /\ ~IsNone(query_results)

(***************************************************************************)
(* Properties of validate (ValidatorSpec): the row cap                     *)
(***************************************************************************)
\* The number a numeral of the model denotes.
NumeralValue(t) ==
    CASE t = "10" -> 10
      [] t = "1000" -> 1000
      [] t = "5000" -> 5000

\* The row limits stated in a text: the numerals that follow a word LIMIT.
StatedLimits(q) ==
    {NumeralValue(q[SkipSpace(q, i + 1)]) :
        i \in {k \in 1..Len(q) - 1 :
                 /\ Upper(q[k]) = "LIMIT" /\ WholeWord(q, k)
                 /\ SkipSpace(q, k + 1) <= Len(q)
                 /\ q[SkipSpace(q, k + 1)] \in {"10", "1000", "5000"}}}

\* C29: for every valid query, the row limit stated in sanitized_query is at
\* most max_rows, also when the query carries its own LIMIT n with
\* n > max_rows.
C29_RowLimitAtMostMaxRows ==
    (~IsNone(verdict) /\ Get(verdict).is_valid) =>
        \A n \in StatedLimits(Get(verdict).sanitized_query) : n <= max_rows

(***************************************************************************)
(* Properties of the chat tab (ChatSpec)                                   *)
(***************************************************************************)
\* C30: after any sequence of question submissions, for every assistant
\* message at history index i with has_results set, get_cached_result(i) is
\* absent or the entry saved for that very message: its SQL and its results
\* are those of the question the message answers.
C30_ResultsStayWithTheirMessage ==
    \A i \in 1..Len(chat_messages) :
        (chat_messages[i].role = "assistant" /\ chat_messages[i].has_results) =>
            \/ IsNone(get_cached_result(i - 1))
            \/ /\ Get(get_cached_result(i - 1)).sql = chat_messages[i].content
               /\ Get(get_cached_result(i - 1)).results
                    = Some([rows |-> chat_messages[i].row_count,
                            of |-> chat_messages[i].content])
====
